---- MODULE Spec2Model ----
(***************************************************************************)
(* Model of bot/exts/moderation/stream.py: the Stream cog, which grants    *)
(* the video role for a bounded time, keeps the due time in a RedisCache   *)
(* (task_cache) and a timer in a Scheduler, and rebuilds the timers from   *)
(* the cache at start-up (_reload_tasks_from_redis).                       *)
(*                                                                         *)
(* Every action is the code of one coroutine between two suspension points *)
(* (awaits).  The effect of an awaited call (task_cache.set, delete,       *)
(* add_roles, remove_roles, fetch_member) happens in the step that resumes *)
(* the coroutine.  bot.utils.scheduling.Scheduler is not part of the       *)
(* sources at hand: its operations follow section 4.2 of the design.       *)
(***************************************************************************)
EXTENDS Integers, Sequences, FiniteSets, TLC

\* ---------------------------------------------------------------- bounds
MaxTime == 1
MaxCmds == 2
MaxStarts == 1

Members == {1, 2}
Times == 0..MaxTime
TzOffsets == {0, 1}
Slots == 1..MaxCmds

\* An absent record / an absent timer; a present one is <<value>>.
Absent == <<>>

VARIABLES
  phase,      \* "up" | "unloading" | "unloaded" | "down": life cycle of the cog
  now,        \* datetime.utcnow(), in whole units
  tz,         \* the host's UTC offset (local time = UTC + tz)
  guild,      \* members currently in the guild
  cached,     \* members the local guild cache resolves (get_member)
  role,       \* role[m]: "none", or the reason the video role was added with
  cache,      \* task_cache: member id -> <<posix timestamp>> or Absent
  timers,     \* the scheduler's pending set: member id -> <<due>> or Absent
  acts,       \* fired _revoke_streaming_permission coroutines in flight, per
              \* member: how many are suspended in delete, in remove_roles
  cmds,       \* the command invocations in flight, one per slot
  reload,     \* reload_task: [pc, items]
  cmdCount,   \* commands invoked so far
  starts,     \* restarts so far
  flaky,      \* whether the store and Discord calls may fail in this run
  cancelled,  \* history: ids whose pending timer a command set out to cancel
  refused,    \* history: members for whom stream or permanentstream answered
              \* "This member can already stream" in this process
  trail       \* history: per key, how fetch_member failed for it in the reload
              \* task of this process: "-", "notfound" or "skipped"

vars == <<phase, now, tz, guild, cached, role, cache, timers, acts, cmds,
          reload, cmdCount, starts, flaky, cancelled, refused, trail>>

\* A command's record: hit says that it has called scheduler.cancel.
Idle == [op |-> "idle", m |-> 0, pc |-> "-", t |-> 0, hit |-> FALSE]
NoActs == [del |-> 0, rem |-> 0]

\* ------------------------------------------------- datetime conversions
\* duration.timestamp(): a naive datetime is read as local time.
Timestamp(d) == d - tz
\* datetime.utcfromtimestamp(value): the naive UTC datetime of an epoch.
UtcFromTimestamp(v) == v

\* ------------------------------------------------------------ task_cache
CacheSet(c, k, v) == [c EXCEPT ![k] = <<v>>]
CacheDelete(c, k) == [c EXCEPT ![k] = Absent]
RECURSIVE Orderings(_)
Orderings(S) ==
  IF S = {} THEN {<<>>}
  ELSE UNION {{<<x>> \o s : s \in Orderings(S \ {x})} : x \in S}
\* task_cache.items(): the records, in an order the store chooses.
CacheItems(c) == Orderings({<<k, c[k][1]>> : k \in {j \in Members : c[j] # Absent}})

\* ------------------------------------------------------------- scheduler
Contains(tm, id) == tm[id] # Absent
ScheduleAt(tm, time, id) == [tm EXCEPT ![id] = <<time>>]
Cancel(tm, id) == [tm EXCEPT ![id] = Absent]
CancelAll(tm) == [id \in Members |-> Absent]
Due(tm, id) == Contains(tm, id) /\ tm[id][1] <= now

\* ------------------------------------------- _revoke_streaming_permission
RevokeDelete(c, m) == CacheDelete(c, m)
RevokeRemoveRoles(r, m) == [r EXCEPT ![m] = "none"]

\* History: an id stays marked until a new timer is armed for it.
Marked(c, tm) == {m \in c : ~Contains(tm, m)}

Init ==
  /\ phase = "up"
  /\ now = 0
  /\ tz \in TzOffsets
  /\ guild = Members
  /\ cached = {}
  /\ role = [m \in Members |-> "none"]
  /\ cache = [m \in Members |-> Absent]
  /\ timers = [m \in Members |-> Absent]
  /\ acts = [m \in Members |-> NoActs]
  /\ cmds = [i \in Slots |-> Idle]
  /\ reload = [pc |-> "wait", items |-> <<>>]
  /\ cmdCount = 0
  /\ starts = 0
  /\ flaky \in BOOLEAN
  /\ cancelled = {}
  /\ refused = {}
  /\ trail = [m \in Members |-> "-"]

\* ------------------------------------------------------------------ clock
Tick ==
  /\ now < MaxTime
  /\ now' = now + 1
  /\ UNCHANGED <<phase, tz, flaky, guild, cached, role, cache, timers, acts, cmds,
                 reload, cmdCount, starts, cancelled, refused, trail>>

\* ------------------------------------------------------- command: stream
\* The default duration, in the model's time unit.
DefaultDuration == 1
\* Lines 87-90: no duration given means now + the default.
StreamDuration(given, d) == IF given THEN d ELSE now + DefaultDuration
\* Mutant of AlreadyAllowed: the member's roles are not looked at.
AlreadyAllowedNever(r, m) == FALSE
\* Lines 93, 113, 137: any(Roles.video == role.id for role in member.roles)
AlreadyAllowed(r, m) == r[m] # "none"
\* Mutant of StreamArm: a timer already pending for the member is kept.
StreamArmKeepPending(tm, d, m) == IF Contains(tm, m) THEN tm ELSE ScheduleAt(tm, d, m)
\* Line 100: self.scheduler.schedule_at(duration, member.id, ...)
StreamArm(tm, d, m) == ScheduleAt(tm, d, m)
\* Line 101: await self.task_cache.set(member.id, duration.timestamp())
StreamPersist(c, m, d) == CacheSet(c, m, Timestamp(d))
\* Line 102: await member.add_roles(..., reason="Temporary ...")
StreamGrant(r, m) == [r EXCEPT ![m] = "temp"]

\* Lines 85-101, up to the suspension in task_cache.set.
StreamStart(i, m, given, d0) ==
  LET d == StreamDuration(given, d0) IN
  /\ phase = "up"
  /\ cmdCount < MaxCmds
  /\ i = cmdCount + 1
  /\ m \in guild
  /\ d \in Times
  /\ cmdCount' = cmdCount + 1
  /\ IF AlreadyAllowed(role, m)
       THEN /\ refused' = refused \cup {m}
            /\ UNCHANGED <<timers, cmds, cancelled>>
       ELSE /\ timers' = StreamArm(timers, d, m)
            /\ cmds' = [cmds EXCEPT ![i] = [op |-> "stream", m |-> m, pc |-> "set", t |-> d, hit |-> FALSE]]
            /\ cancelled' = Marked(cancelled, timers')
            /\ UNCHANGED refused
  /\ UNCHANGED <<phase, now, tz, flaky, guild, cached, role, cache, acts, reload,
                 starts, trail>>

\* Line 101 resumes: the record is written, or task_cache.set raises.
StreamSet(i) ==
  LET c == cmds[i] IN
  /\ c.op = "stream" /\ c.pc = "set"
  /\ \/ /\ cache' = StreamPersist(cache, c.m, c.t)
        /\ cmds' = [cmds EXCEPT ![i].pc = "add"]
     \/ /\ flaky
        /\ cmds' = [cmds EXCEPT ![i] = Idle]
        /\ UNCHANGED cache
  /\ UNCHANGED <<phase, now, tz, flaky, guild, cached, role, timers, acts, reload,
                 cmdCount, starts, cancelled, refused, trail>>

\* Lines 102-105: the role is added, or add_roles raises; the command ends.
StreamAdd(i) ==
  LET c == cmds[i] IN
  /\ c.op = "stream" /\ c.pc = "add"
  /\ cmds' = [cmds EXCEPT ![i] = Idle]
  /\ \/ role' = StreamGrant(role, c.m)
     \/ flaky /\ UNCHANGED role
  /\ UNCHANGED <<phase, now, tz, flaky, guild, cached, cache, timers, acts, reload,
                 cmdCount, starts, cancelled, refused, trail>>

\* ---------------------------------------------- the scheduler fires a timer
\* A due timer leaves the pending set and its coroutine starts (line 36).
Fire(m) ==
  /\ phase \in {"up", "unloading"}
  /\ Due(timers, m)
  /\ timers' = [timers EXCEPT ![m] = Absent]
  /\ acts' = [acts EXCEPT ![m].del = @ + 1]
  /\ UNCHANGED <<phase, now, tz, flaky, guild, cached, role, cache, cmds, reload,
                 cmdCount, starts, cancelled, refused, trail>>

\* Line 36 resumes in a fired coroutine: the record is deleted, or delete raises.
ActDelete(m) ==
  /\ acts[m].del > 0
  /\ \/ /\ cache' = RevokeDelete(cache, m)
        /\ acts' = [acts EXCEPT ![m] = [del |-> @.del - 1, rem |-> @.rem + 1]]
     \/ /\ flaky
        /\ acts' = [acts EXCEPT ![m].del = @ - 1]
        /\ UNCHANGED cache
  /\ UNCHANGED <<phase, now, tz, flaky, guild, cached, role, timers, cmds, reload,
                 cmdCount, starts, cancelled, refused, trail>>

\* Line 37 resumes in a fired coroutine: the role is removed, or remove_roles raises.
ActRemove(m) ==
  /\ acts[m].rem > 0
  /\ acts' = [acts EXCEPT ![m].rem = @ - 1]
  /\ \/ role' = RevokeRemoveRoles(role, m)
     \/ flaky /\ UNCHANGED role
  /\ UNCHANGED <<phase, now, tz, flaky, guild, cached, cache, timers, cmds, reload,
                 cmdCount, starts, cancelled, refused, trail>>

\* ---------------------------------------------- command: permanentstream
\* Line 115: if member.id in self.scheduler
PermChecks(tm, m) == Contains(tm, m)
\* Mutant of PermCancel: the upgrade forgets to cancel the timer.
PermCancelSkipped(tm, m) == tm
\* Lines 115-116: if member.id in self.scheduler: self.scheduler.cancel(...)
PermCancel(tm, m) == Cancel(tm, m)
\* Line 117: await self.task_cache.delete(member.id)
PermForget(c, m) == CacheDelete(c, m)
\* Line 127: await member.add_roles(..., reason="Permanent ...")
PermGrant(r, m) == [r EXCEPT ![m] = "perm"]

\* Lines 111-127, up to the first suspension.
PermStart(i, m) ==
  /\ phase = "up"
  /\ cmdCount < MaxCmds
  /\ i = cmdCount + 1
  /\ m \in guild
  /\ cmdCount' = cmdCount + 1
  /\ IF AlreadyAllowed(role, m)
       THEN IF PermChecks(timers, m)
              THEN /\ timers' = PermCancel(timers, m)
                   /\ cmds' = [cmds EXCEPT ![i] = [op |-> "pstream", m |-> m, pc |-> "del", t |-> 0, hit |-> TRUE]]
                   /\ cancelled' = cancelled \cup {m}
                   /\ UNCHANGED refused
              ELSE /\ refused' = refused \cup {m}
                   /\ UNCHANGED <<timers, cmds, cancelled>>
       ELSE /\ cmds' = [cmds EXCEPT ![i] = [op |-> "pstream", m |-> m, pc |-> "add", t |-> 0, hit |-> FALSE]]
            /\ UNCHANGED <<timers, cancelled, refused>>
  /\ UNCHANGED <<phase, now, tz, flaky, guild, cached, role, cache, acts, reload,
                 starts, trail>>

\* Lines 117-122: the record is deleted, or delete raises; the command ends.
PermDelete(i) ==
  LET c == cmds[i] IN
  /\ c.op = "pstream" /\ c.pc = "del"
  /\ cmds' = [cmds EXCEPT ![i] = Idle]
  /\ \/ cache' = PermForget(cache, c.m)
     \/ flaky /\ UNCHANGED cache
  /\ UNCHANGED <<phase, now, tz, flaky, guild, cached, role, timers, acts, reload,
                 cmdCount, starts, cancelled, refused, trail>>

\* Lines 127-129: the role is added, or add_roles raises; the command ends.
PermAdd(i) ==
  LET c == cmds[i] IN
  /\ c.op = "pstream" /\ c.pc = "add"
  /\ cmds' = [cmds EXCEPT ![i] = Idle]
  /\ \/ role' = PermGrant(role, c.m)
     \/ flaky /\ UNCHANGED role
  /\ UNCHANGED <<phase, now, tz, flaky, guild, cached, cache, timers, acts, reload,
                 cmdCount, starts, cancelled, refused, trail>>

\* ------------------------------------------------- command: revokestream
\* Mutant of RevokeChecks: cancel is called without looking at the scheduler.
RevokeChecksNothing(tm, m) == TRUE
\* Line 140: if member.id in self.scheduler
RevokeChecks(tm, m) == Contains(tm, m)
\* Lines 140-141: if member.id in self.scheduler: self.scheduler.cancel(...)
RevokeCancel(tm, m) == IF RevokeChecks(tm, m) THEN Cancel(tm, m) ELSE tm

\* Lines 135-142, up to the suspension in task_cache.delete (line 36).
RevokeStart(i, m) ==
  /\ phase = "up"
  /\ cmdCount < MaxCmds
  /\ i = cmdCount + 1
  /\ m \in guild
  /\ cmdCount' = cmdCount + 1
  /\ IF AlreadyAllowed(role, m)
       THEN /\ timers' = RevokeCancel(timers, m)
            /\ cmds' = [cmds EXCEPT ![i] = [op |-> "rstream", m |-> m, pc |-> "del", t |-> 0,
                                            hit |-> RevokeChecks(timers, m)]]
            /\ cancelled' = IF RevokeChecks(timers, m) THEN cancelled \cup {m} ELSE cancelled
       ELSE UNCHANGED <<timers, cmds, cancelled>>
  /\ UNCHANGED <<phase, now, tz, flaky, guild, cached, role, cache, acts, reload,
                 starts, refused, trail>>

\* Line 36 resumes in the command: the record is deleted, or delete raises.
RevokeDel(i) ==
  LET c == cmds[i] IN
  /\ c.op = "rstream" /\ c.pc = "del"
  /\ \/ /\ cache' = RevokeDelete(cache, c.m)
        /\ cmds' = [cmds EXCEPT ![i].pc = "rem"]
     \/ /\ flaky
        /\ cmds' = [cmds EXCEPT ![i] = Idle]
        /\ UNCHANGED cache
  /\ UNCHANGED <<phase, now, tz, flaky, guild, cached, role, timers, acts, reload,
                 cmdCount, starts, cancelled, refused, trail>>

\* Lines 37, 143-144: the role is removed, or remove_roles raises; the command ends.
RevokeRemove(i) ==
  LET c == cmds[i] IN
  /\ c.op = "rstream" /\ c.pc = "rem"
  /\ cmds' = [cmds EXCEPT ![i] = Idle]
  /\ \/ role' = RevokeRemoveRoles(role, c.m)
     \/ flaky /\ UNCHANGED role
  /\ UNCHANGED <<phase, now, tz, flaky, guild, cached, cache, timers, acts, reload,
                 cmdCount, starts, cancelled, refused, trail>>

\* ------------------------------------------------ _reload_tasks_from_redis
ReloadDone == [pc |-> "done", items |-> <<>>]
\* Mutant of ReloadArm: a record whose due time has elapsed is not armed.
ReloadArmDropsElapsed(tm, value, key) ==
  IF UtcFromTimestamp(value) <= now THEN tm
  ELSE ScheduleAt(tm, UtcFromTimestamp(value), key)
\* Lines 59-65: the timer is armed with the persisted due time.
ReloadArm(tm, value, key) == ScheduleAt(tm, UtcFromTimestamp(value), key)

\* Lines 43-65: the loop runs without suspending while get_member (line 44)
\* resolves the key from the local cache ch, and stops at the first key that
\* needs fetch_member (line 48) or at the end of the snapshot.
RECURSIVE ReloadLoop(_, _, _)
ReloadLoop(items, tm, ch) ==
  IF items = <<>> THEN [pc |-> "done", items |-> <<>>, tm |-> tm]
  ELSE IF items[1][1] \in ch
    THEN ReloadLoop(Tail(items), ReloadArm(tm, items[1][2], items[1][1]), ch)
    ELSE [pc |-> "fetch", items |-> items, tm |-> tm]

\* Lines 41-44: the guild is available and task_cache.items() returns the
\* snapshot, or raises; the loop starts.
ReloadItems ==
  /\ phase = "up"
  /\ reload.pc = "wait"
  /\ \/ \E items \in CacheItems(cache), ch \in SUBSET guild :
          LET r == ReloadLoop(items, timers, ch) IN
          /\ reload' = [pc |-> r.pc, items |-> r.items]
          /\ timers' = r.tm
          /\ cached' = IF r.pc = "done" THEN {} ELSE ch
     \/ /\ flaky
        /\ reload' = ReloadDone
        /\ UNCHANGED <<timers, cached>>
  /\ cancelled' = Marked(cancelled, timers')
  /\ UNCHANGED <<phase, now, tz, flaky, guild, role, cache, acts, cmds, cmdCount, starts,
                 refused, trail>>

\* Mutant of ReloadForget: the record of a member who left is kept.
ReloadForgetSkipped(c, key) == c
\* Lines 54-55: await self.task_cache.delete(key)
ReloadForget(c, key) == CacheDelete(c, key)
\* Mutant of ReloadSkip: the key whose fetch failed is armed all the same.
ReloadSkipArms(tm, value, key) == ScheduleAt(tm, UtcFromTimestamp(value), key)
\* Lines 56-58: an HTTPException other than NotFound: continue, nothing armed.
ReloadSkip(tm, value, key) == tm

\* Lines 48-65: fetch_member returns the member, raises NotFound, or raises
\* another HTTPException, and the loop goes on; or it raises an exception
\* that no except clause of lines 49-58 matches (asyncio.TimeoutError,
\* OSError, ...), which leaves the coroutine and ends the task.
ReloadFetch ==
  LET key == reload.items[1][1]
      value == reload.items[1][2]
      rest == Tail(reload.items) IN
  /\ phase = "up"
  /\ reload.pc = "fetch"
  /\ \/ /\ key \in guild
        /\ LET r == ReloadLoop(rest, ReloadArm(timers, value, key), cached) IN
             /\ reload' = [pc |-> r.pc, items |-> r.items]
             /\ timers' = r.tm
        /\ UNCHANGED trail
     \/ /\ key \notin guild
        /\ reload' = [reload EXCEPT !.pc = "prune"]
        /\ trail' = [trail EXCEPT ![key] = "notfound"]
        /\ UNCHANGED <<timers>>
     \/ /\ flaky
        /\ LET r == ReloadLoop(rest, ReloadSkip(timers, value, key), cached) IN
             /\ reload' = [pc |-> r.pc, items |-> r.items]
             /\ timers' = r.tm
        /\ trail' = [trail EXCEPT ![key] = "skipped"]
     \/ /\ flaky
        /\ reload' = ReloadDone
        /\ UNCHANGED <<timers, trail>>
  /\ cached' = IF reload'.pc = "done" THEN {} ELSE cached
  /\ cancelled' = Marked(cancelled, timers')
  /\ UNCHANGED <<phase, now, tz, flaky, guild, role, cache, acts, cmds, cmdCount, starts,
                 refused>>

\* Lines 54-55: the record of a member who left is deleted, or delete raises
\* and ends the task; the loop goes on.
ReloadPrune ==
  LET key == reload.items[1][1]
      rest == Tail(reload.items) IN
  /\ phase = "up"
  /\ reload.pc = "prune"
  /\ \/ /\ cache' = ReloadForget(cache, key)
        /\ LET r == ReloadLoop(rest, timers, cached) IN
             /\ reload' = [pc |-> r.pc, items |-> r.items]
             /\ timers' = r.tm
     \/ /\ flaky
        /\ reload' = ReloadDone
        /\ UNCHANGED <<cache, timers>>
  /\ cached' = IF reload'.pc = "done" THEN {} ELSE cached
  /\ cancelled' = Marked(cancelled, timers')
  /\ UNCHANGED <<phase, now, tz, flaky, guild, role, acts, cmds, cmdCount, starts,
                 refused, trail>>

\* ------------------------------------------------------------- life cycle
\* Line 31: cog_unload cancels the reload task; the commands already running
\* go on, no new one is dispatched to the cog.
Unload ==
  /\ phase = "up"
  /\ phase' = "unloading"
  /\ reload' = ReloadDone
  /\ cached' = {}
  /\ UNCHANGED <<now, tz, flaky, guild, role, cache, timers, acts, cmds, cmdCount,
                 starts, cancelled, refused, trail>>

\* Mutant of UnloadCallback: the callback leaves the pending timers alone.
UnloadCallbackSkipped(tm, c) == [timers |-> tm, cache |-> c]
\* Mutant of UnloadCallback: the callback also drops the records.
UnloadCallbackForgets(tm, c) ==
  [timers |-> CancelAll(tm), cache |-> [m \in Members |-> Absent]]
\* Line 32: lambda _: self.scheduler.cancel_all(); task_cache is not touched.
UnloadCallback(tm, c) == [timers |-> CancelAll(tm), cache |-> c]

\* Line 32: the done callback of the reload task runs scheduler.cancel_all().
UnloadCancelAll ==
  /\ phase = "unloading"
  /\ phase' = "unloaded"
  /\ timers' = UnloadCallback(timers, cache).timers
  /\ cache' = UnloadCallback(timers, cache).cache
  /\ UNCHANGED <<now, tz, flaky, guild, cached, role, acts, cmds, reload,
                 cmdCount, starts, cancelled, refused, trail>>

\* The process stops: everything it held in memory is gone; the store and the
\* guild's roles stay.
Stop ==
  /\ phase # "down"
  /\ starts < MaxStarts
  /\ phase' = "down"
  /\ timers' = [m \in Members |-> Absent]
  /\ acts' = [m \in Members |-> NoActs]
  /\ cmds' = [i \in Slots |-> Idle]
  /\ reload' = ReloadDone
  /\ cached' = {}
  /\ cancelled' = {}
  /\ refused' = {}
  /\ trail' = [m \in Members |-> "-"]
  /\ UNCHANGED <<now, tz, flaky, guild, role, cache, cmdCount, starts>>

\* Lines 24-27: the cog is constructed in a new process: an empty scheduler,
\* and the reload task is created.
Start ==
  /\ phase = "down"
  /\ phase' = "up"
  /\ starts' = starts + 1
  /\ reload' = [pc |-> "wait", items |-> <<>>]
  /\ UNCHANGED <<now, tz, flaky, guild, cached, role, cache, timers, acts, cmds,
                 cmdCount, cancelled, refused, trail>>

\* A member leaves the guild while the process is down, and loses the role.
Leave(m) ==
  /\ phase = "down"
  /\ m \in guild
  /\ guild' = guild \ {m}
  /\ role' = [role EXCEPT ![m] = "none"]
  /\ UNCHANGED <<phase, now, tz, flaky, cached, cache, timers, acts, cmds, reload,
                 cmdCount, starts, cancelled, refused, trail>>

Next ==
  \/ Tick
  \/ \E i \in Slots, m \in Members, given \in BOOLEAN, d \in Times :
       StreamStart(i, m, given, d)
  \/ \E i \in Slots : StreamSet(i)
  \/ \E i \in Slots : StreamAdd(i)
  \/ \E i \in Slots, m \in Members : PermStart(i, m)
  \/ \E i \in Slots : PermDelete(i)
  \/ \E i \in Slots : PermAdd(i)
  \/ \E i \in Slots, m \in Members : RevokeStart(i, m)
  \/ \E i \in Slots : RevokeDel(i)
  \/ \E i \in Slots : RevokeRemove(i)
  \/ \E m \in Members : Fire(m)
  \/ \E m \in Members : ActDelete(m)
  \/ \E m \in Members : ActRemove(m)
  \/ ReloadItems
  \/ ReloadFetch
  \/ ReloadPrune
  \/ Unload
  \/ UnloadCancelAll
  \/ Stop
  \/ Start
  \/ \E m \in Members : Leave(m)

Spec == Init /\ [][Next]_vars

\* What the event loop guarantees: a callback that is ready runs (the done
\* callback of the reload task, a due timer), an awaited call returns or
\* raises, and time passes.  Nothing obliges anyone to invoke a command, to
\* unload the cog or to stop the process.
Fairness ==
  /\ WF_vars(Tick)
  /\ WF_vars(UnloadCancelAll)
  /\ WF_vars(ReloadItems) /\ WF_vars(ReloadFetch) /\ WF_vars(ReloadPrune)
  /\ \A m \in Members :
       WF_vars(Fire(m)) /\ WF_vars(ActDelete(m)) /\ WF_vars(ActRemove(m))
  /\ \A i \in Slots :
       /\ WF_vars(StreamSet(i)) /\ WF_vars(StreamAdd(i))
       /\ WF_vars(PermDelete(i)) /\ WF_vars(PermAdd(i))
       /\ WF_vars(RevokeDel(i)) /\ WF_vars(RevokeRemove(i))

\* The cog right after its first command, stream(member 1, until MaxTime),
\* has completed: the state Spec reaches by StreamStart, StreamSet, StreamAdd
\* from Init.  One more command can be invoked.
LiveInit ==
  /\ phase = "up"
  /\ now = 0
  /\ tz \in TzOffsets
  /\ guild = Members
  /\ cached = {}
  /\ role = StreamGrant([m \in Members |-> "none"], 1)
  /\ cache = StreamPersist([m \in Members |-> Absent], 1, MaxTime)
  /\ timers = StreamArm([m \in Members |-> Absent], MaxTime, 1)
  /\ acts = [m \in Members |-> NoActs]
  /\ cmds = [i \in Slots |-> Idle]
  /\ reload = [pc |-> "wait", items |-> <<>>]
  /\ cmdCount = 1
  /\ starts = 0
  /\ flaky \in BOOLEAN
  /\ cancelled = {}
  /\ refused = {}
  /\ trail = [m \in Members |-> "-"]

LiveSpec == LiveInit /\ [][Next]_vars /\ Fairness

\* ================================================================ claims
NoCommandRunning == \A i \in Slots : cmds[i] = Idle
NoActionRunning == \A m \in Members : acts[m] = NoActs
\* Reconciliation has finished and no command or fired action is mid-execution.
Steady == phase = "up" /\ reload.pc = "done" /\ NoCommandRunning /\ NoActionRunning

\* C1 (as stated): a member granted the role by stream never ends up, after a
\* stop and a restart whose reconciliation has finished, holding the role with
\* no record, no timer and no revoke action left to remove it.  Exactly one
\* command was ever invoked, so no permanentstream or revokestream intervened,
\* and no external call failed.
C1_RestartDurability ==
  (~flaky /\ starts >= 1 /\ cmdCount = 1 /\ Steady) =>
    \A m \in guild :
      role[m] = "temp" => (cache[m] # Absent \/ Contains(timers, m))

\* C2 (as stated, its "record only if timer" half): in a steady state every
\* member with a record in task_cache has a timer pending.  Restricted to the
\* first life of the process, with one command invoked and no failing call.
C2_RecordHasTimer ==
  (~flaky /\ starts = 0 /\ cmdCount = 1 /\ Steady) =>
    \A m \in Members : (cache[m] # Absent) => Contains(timers, m)

\* C3 (as stated): when task_cache.set fails in the stream command, no timer
\* for the member is pending when the command ends.
C3_NoTimerWhenSetFails ==
  [][\A i \in Slots :
       (cmds[i].op = "stream" /\ cmds[i].pc = "set" /\ cmds'[i] = Idle
        /\ phase' # "down")
         => ~Contains(timers', cmds[i].m)]_vars

\* C4 (as stated): a fired action never has deleted the record while its
\* remove_roles has not yet been attempted.
C4_RevokeBeforeDelete == \A m \in Members : acts[m].rem = 0

\* C5 (as stated): when remove_roles fails in a fired action (the member keeps
\* the role), the member's record is absent afterwards.
C5_FailedRemovalLeavesNoRecord ==
  [][\A m \in Members :
       (acts'[m].rem = acts[m].rem - 1 /\ phase' # "down"
        /\ role[m] # "none" /\ role'[m] = role[m])
         => cache'[m] = Absent]_vars

\* C6: once permanentstream or revokestream has cancelled the pending timer of
\* m, and until a new timer is armed for m, no revoke action is started for m
\* by the scheduler (so the cancelled action deletes no record and removes no
\* role), whatever its due time.
C6_CancelThenFireNever ==
  [][\A m \in Members : m \in cancelled => acts'[m].del <= acts[m].del]_vars

\* C6 witness: a command cancelled m's timer, every due time has elapsed, the
\* command is still suspended in its delete, and no action runs for m.
C6_Witness ==
  \E i \in Slots : /\ cmds[i].op \in {"pstream", "rstream"}
                   /\ cmds[i].pc = "del"
                   /\ cmds[i].m \in cancelled
                   /\ now = MaxTime
                   /\ acts[cmds[i].m] = NoActs

\* C7 (as stated): when permanentstream completes its upgrade path for m (its
\* delete succeeds), m has no pending timer and no record and holds the role.
C7_UpgradeForgets ==
  [][\A i \in Slots :
       (~flaky /\ cmds[i].op = "pstream" /\ cmds[i].pc = "del"
        /\ cmds'[i] = Idle /\ phase' # "down")
         => /\ ~Contains(timers', cmds[i].m)
            /\ cache'[cmds[i].m] = Absent
            /\ role'[cmds[i].m] # "none"]_vars

\* C8 (as stated): when revokestream, having cancelled m's pending timer,
\* completes, m has no pending timer, no record and no role, and no fired
\* action is left to remove the role a second time.
C8_RevokeNow ==
  [][\A i \in Slots :
       (~flaky /\ cmds[i].op = "rstream" /\ cmds[i].pc = "rem"
        /\ cmds[i].hit /\ cmds'[i] = Idle /\ phase' # "down")
         => /\ ~Contains(timers', cmds[i].m)
            /\ cache'[cmds[i].m] = Absent
            /\ role'[cmds[i].m] = "none"
            /\ acts'[cmds[i].m] = NoActs]_vars

\* C9 (as stated): after a single stream command and nothing else (no other
\* command, no unload, no restart, no failing call), once the command and the
\* fired action have finished and no timer is pending, the member does not
\* hold the role and has no record.
C9_GrantThenExpiry ==
  (~flaky /\ starts = 0 /\ cmdCount = 1 /\ Steady) =>
    \A m \in Members :
      (~Contains(timers, m) /\ role[m] # "perm")
        => (role[m] = "none" /\ cache[m] = Absent)

\* The keys of a snapshot, and the place of a key in it.
Keys(items) == {items[j][1] : j \in 1..Len(items)}
ValueOf(items, k) == items[CHOOSE j \in 1..Len(items) : items[j][1] = k][2]
\* In this step the reconciliation loop passes key k having resolved it (no
\* call fails in the run, so a key passed was armed unless it was pruned).
ReloadPasses(k) ==
  /\ ~flaky /\ phase = "up" /\ phase' = "up"
  /\ \/ /\ reload.pc = "wait" /\ reload'.pc # "wait"
        /\ cache[k] # Absent /\ k \notin Keys(reload'.items)
     \/ /\ reload.pc = "fetch"
        /\ k \in Keys(reload.items) \ Keys(reload'.items)
     \/ /\ reload.pc = "prune"
        /\ k \in Keys(Tail(reload.items)) \ Keys(reload'.items)
PersistedDue(k) ==
  IF reload.pc = "wait" THEN UtcFromTimestamp(cache[k][1])
  ELSE UtcFromTimestamp(ValueOf(reload.items, k))
\* C10: the timer pending for an id is the most recently armed one: after the
\* stream command arms m the pending timer of m has the command's due time,
\* also when a timer was already pending for m; and every key that the
\* reconciliation loop arms is pending with the due time of its record.
C10_MostRecentArmPending ==
  [][/\ \A i \in Slots :
          (cmds[i] = Idle /\ cmds'[i].op = "stream")
            => timers'[cmds'[i].m] = << cmds'[i].t >>
     /\ \A k \in Members :
          ReloadPasses(k) => timers'[k] = << PersistedDue(k) >>]_vars

\* C10 witness: two stream commands armed the same member, the first for a
\* time not yet due, and the pending timer is the second one's.
C10_Witness ==
  /\ now = 0
  /\ cmds[1].op = "stream" /\ cmds[2].op = "stream"
  /\ cmds[1].m = cmds[2].m
  /\ cmds[1].t = 1 /\ cmds[2].t = 0
  /\ timers[cmds[1].m] = << 0 >>

\* C11: when no call fails, every key whose fetch_member raised NotFound has,
\* once reconciliation has finished, no record in task_cache, no pending
\* timer and no revoke action started for it.
C11_PrunesMissing ==
  (~flaky /\ phase = "up" /\ reload.pc = "done") =>
    \A k \in Members :
      trail[k] = "notfound" =>
        (cache[k] = Absent /\ ~Contains(timers, k) /\ acts[k] = NoActs)

\* C11 witness: reconciliation finished after fetch_member raised NotFound
\* for a key, while another key of the snapshot resolved and is pending.
C11_Witness ==
  /\ ~flaky /\ phase = "up" /\ reload.pc = "done"
  /\ \E k \in Members : trail[k] = "notfound"
  /\ \E k \in guild : Contains(timers, k)

\* In this step the reload task runs (and is not cancelled or stopped).
ReloadSteps == phase = "up" /\ phase' = "up" /\ reload' # reload

\* C12 (as stated): when the reconciliation loop arms key k from the record
\* that the one stream command invoked so far has written (the command is
\* still suspended in add_roles), k is pending with the due time that the
\* command passed to schedule_at; and no step of the loop writes a record.
C12_RearmsOriginalDue ==
  [][/\ \A k \in Members, i \in Slots :
          (ReloadPasses(k) /\ starts = 0 /\ cmdCount = 1
           /\ cmds[i].op = "stream" /\ cmds[i].pc = "add" /\ cmds[i].m = k)
            => timers'[k] = << cmds[i].t >>
     /\ ReloadSteps =>
          \A k \in Members : cache'[k] = cache[k] \/ cache'[k] = Absent]_vars

\* C14: when fetch_member raises an HTTPException other than NotFound for a
\* key, that step writes and deletes no record, leaves the key's timer as it
\* was, and the loop goes on: the key has left the snapshot and every
\* following key that the local cache resolves has been armed in the same
\* step; and no later step of the loop arms the skipped key.
C14_TransientKeepsObligation ==
  [][\A k \in Members :
       /\ (ReloadSteps /\ trail[k] # "skipped" /\ trail'[k] = "skipped")
            => /\ cache' = cache
               /\ timers'[k] = timers[k]
               /\ k \notin Keys(reload'.items)
               /\ \A j \in (Keys(reload.items) \ Keys(reload'.items)) \ {k} :
                    timers'[j] = << UtcFromTimestamp(ValueOf(reload.items, j)) >>
       /\ (ReloadSteps /\ trail[k] = "skipped")
            => timers'[k] = timers[k]]_vars

\* C14 witness: the fetch of one key failed with an HTTPException, its record
\* is still there and it has no timer, and the other key of the snapshot is
\* pending.
C14_Witness ==
  /\ phase = "up" /\ starts = 1 /\ reload.pc = "done"
  /\ \E k \in guild, j \in guild :
       /\ trail[k] = "skipped" /\ cache[k] # Absent /\ ~Contains(timers, k)
       /\ j # k /\ Contains(timers, j)

\* C15 (as stated): when a step of the reconciliation loop on one key ends
\* the task, every other key that was still in the snapshot and whose member
\* is in the guild is pending: a failure on one key (fetch_member, or
\* task_cache.delete while pruning) does not keep the following keys from
\* being armed.
C15_FailureIsolation ==
  [][(ReloadSteps /\ reload.pc \in {"fetch", "prune"} /\ reload'.pc = "done")
       => \A j \in Keys(Tail(reload.items)) \cap guild : Contains(timers', j)]_vars

NoTimers == \A m \in Members : ~Contains(timers, m)

\* C16: after cog_unload, whether the reload task was still in flight or had
\* finished, eventually no timer is pending; and once scheduler.cancel_all
\* has run, no timer is pending ever after and the reload task is over.
C16_NoOrphanTimers ==
  /\ (phase = "unloading") ~> NoTimers
  /\ [](phase = "unloaded" => (NoTimers /\ reload.pc = "done"))

\* C16 witness: the cog was unloaded while member 1's timer was pending:
\* the callback has run, the record and the role are still there, no action
\* runs and no timer is pending.
C16_Witness ==
  /\ phase = "unloaded" /\ ~flaky /\ starts = 0
  /\ cache[1] # Absent /\ role[1] = "temp"
  /\ NoActionRunning /\ NoTimers

\* C17: neither step of cog_unload (cancelling the reload task, then the
\* callback's scheduler.cancel_all) writes or deletes a record: task_cache is
\* the same after the step, so the record of every timer that cancel_all
\* removed is still there for the next start-up.
C17_UnloadKeepsStore ==
  [][(\/ phase = "up" /\ phase' = "unloading"
      \/ phase = "unloading" /\ phase' = "unloaded")
       => /\ cache' = cache
          /\ \A m \in Members :
               (Contains(timers, m) /\ ~Contains(timers', m) /\ cache[m] # Absent)
                 => cache'[m] # Absent]_vars

\* C17 witness: the cog was unloaded with two timers pending and their
\* records are in task_cache after cancel_all.
C17_Witness ==
  /\ phase = "unloaded" /\ ~flaky /\ starts = 0 /\ now = 0
  /\ NoActionRunning /\ NoCommandRunning
  /\ \A m \in Members : cache[m] # Absent /\ role[m] = "temp"

\* C18 (as stated): whenever the reconciliation loop arms a timer for a key
\* whose member is in the guild, a record for that key is in task_cache at
\* that moment.
C18_NoStaleSnapshotArming ==
  [][\A k \in guild : ReloadPasses(k) => cache[k] # Absent]_vars

\* C19: permanentstream and revokestream call scheduler.cancel in the step
\* in which they test membership: whenever a command calls cancel for an id,
\* a timer is pending for that id at that instant and none is pending after
\* the step, whatever timer fires, commands and reload steps came before.
C19_CheckThenCancelAtomic ==
  [][\A i \in Slots :
       (cmds[i] = Idle /\ cmds'[i].op \in {"pstream", "rstream"} /\ cmds'[i].hit)
         => /\ Contains(timers, cmds'[i].m)
            /\ ~Contains(timers', cmds'[i].m)]_vars

\* C19 witness: revokestream has cancelled the timer of a member, which was
\* due, while the reload task is suspended in fetch_member for that member.
C19_Witness ==
  \E i \in Slots :
    /\ cmds[i].op = "rstream" /\ cmds[i].hit /\ cmds[i].pc = "del"
    /\ reload.pc = "fetch" /\ reload.items[1][1] = cmds[i].m
    /\ now = MaxTime

\* C20: a grant command refused for a member who already holds the role
\* (stream; permanentstream when no timer is pending) leaves the timers,
\* task_cache, the roles and the commands in flight as they were; stream and
\* permanentstream go on only for a member without the role (permanentstream
\* also for one with a pending timer); when task_cache.set fails in stream
\* the roles are unchanged; and the temporary role is added only by a stream
\* command that has persisted its record.
C20_DuplicateGrantChangesNothing ==
  [][/\ (refused' # refused /\ phase' = "up")
          => /\ \A m \in refused' \ refused : role[m] # "none"
             /\ timers' = timers /\ cache' = cache /\ role' = role
             /\ cmds' = cmds
     /\ \A i \in Slots :
          /\ (cmds[i] = Idle /\ cmds'[i].op = "stream")
               => role[cmds'[i].m] = "none"
          /\ (cmds[i] = Idle /\ cmds'[i].op = "pstream")
               => (role[cmds'[i].m] = "none" \/ Contains(timers, cmds'[i].m))
          /\ (cmds[i].op = "stream" /\ cmds[i].pc = "set" /\ cmds'[i] = Idle)
               => role' = role
     /\ \A m \in Members :
          (role'[m] = "temp" /\ role[m] # "temp")
            => \E i \in Slots : /\ cmds[i].op = "stream" /\ cmds[i].pc = "add"
                                /\ cmds[i].m = m]_vars

\* C20 witness: the last command was a grant refused for a member who holds
\* the role and has no pending timer.
C20_Witness ==
  /\ phase = "up" /\ starts = 0 /\ ~flaky
  /\ refused # {} /\ cmdCount = MaxCmds
  /\ \E m \in refused : role[m] # "none" /\ ~Contains(timers, m)

\* The record of z is in task_cache with a due time that has elapsed, z is in
\* the guild, and the reload task of a restarted process is about to read
\* the records; no call fails in the run.
PastDueAtReload(z) ==
  /\ ~flaky /\ phase = "up" /\ starts >= 1 /\ reload.pc = "wait"
  /\ z \in guild
  /\ cache[z] # Absent /\ UtcFromTimestamp(cache[z][1]) <= now
\* The member is without the role and without the record.
Revoked(z) == role[z] = "none" /\ cache[z] = Absent
\* A fired revoke action of z has deleted the record and is suspended in
\* remove_roles.
RevokeUnderWay(z) == acts[z].rem > 0 /\ cache[z] = Absent

\* C13: a record that is past due when reconciliation runs is not dropped:
\* a revoke action of its member is fired and deletes the record, unless
\* revokestream revokes the member first, the cog is unloaded first, or a
\* command cancels the timer that the loop armed;
\* and a revoke action that has deleted the record goes on to remove the
\* role, unless the process stops first.
C13_PastDueNotDropped ==
  \A z \in Members :
    /\ PastDueAtReload(z)
         ~> (RevokeUnderWay(z) \/ Revoked(z) \/ phase # "up" \/ z \in cancelled)
    /\ (~flaky /\ RevokeUnderWay(z)) ~> (role[z] = "none" \/ phase = "down")

\* C13 witness: on a host one unit east of UTC the record of member 1 is past
\* due at every restart; after the restart, with no further command, member 1
\* has lost the role and the record.
C13_Witness ==
  /\ ~flaky /\ tz = 1 /\ phase = "up" /\ starts = 1 /\ cmdCount = 1
  /\ reload.pc = "done" /\ 1 \in guild
  /\ Revoked(1) /\ NoActionRunning
====
